---- MODULE Spec2Model ----
(***************************************************************************)
(* CloudNexus API: the request handlers of main.py over the database layer *)
(* of database.py and the object-store helpers of utils.py.                *)
(*                                                                         *)
(* One action per HTTP endpoint.  An action is the whole request: the      *)
(* get_db dependency (lazy engine creation, session), the handler body,    *)
(* the dependency's exit code (commit / rollback / close) and the mapping  *)
(* of the raised exception to the HTTP response.  What the request did is  *)
(* kept in `last` until the next request is taken up (next_request): the   *)
(* process handles one request at a time.                                  *)
(***************************************************************************)
EXTENDS Integers, Sequences, FiniteSets, TLC

(***************************************************************************)
(* Bounds of the model.                                                    *)
(***************************************************************************)
MaxTasks == 2          \* rows the API may add to the tasks table
MaxClock == 1          \* last clock tick
TicksPerSecond == 2    \* clock ticks in one second of the strftime stamp
MaxObjects == 1        \* distinct keys in the bucket
MaxRetriesArg == 3     \* largest max_retries given to create_db_engine alone
MaxDelayArg == 2       \* largest retry_delay given to create_db_engine alone
MaxFailFirst == 4      \* most failing attempts before the database answers
NumThreads == 2        \* threads that call get_session_factory / get_engine

(***************************************************************************)
(* Program constants.                                                      *)
(***************************************************************************)
MAX_RETRIES == 3               \* create_db_engine(max_retries = 3)
RETRY_DELAY == 1               \* create_db_engine(retry_delay = 1.0)
MIN_TITLE_LEN == 1             \* TaskCreate.title min_length
MAX_TITLE_LEN == 255           \* TaskCreate.title max_length
MAX_LIMIT == 1000              \* get_items limit le=1000
max_size == 10 * 1024 * 1024   \* upload_file: 10MB

NULL == "None"         \* Python None, SQL NULL, JSON null
NoTime == -1           \* a DateTime column holding NULL

valid_statuses == {"pending", "in_progress", "completed"}

VARIABLES
    tasks,          \* the rows of table "tasks", in the store's natural order
    nextId,         \* the autoincrement sequence of tasks.id
    now,            \* the UTC clock, in ticks
    _engine,        \* database._engine
    _SessionLocal,  \* database._SessionLocal
    environ,        \* os.environ: [S3_BUCKET, DEBUG]
    objects,        \* the keys present in the bucket
    last,           \* the last request: input, response, and what it did
    callers         \* the threads inside get_session_factory / get_engine

vars == <<tasks, nextId, now, _engine, _SessionLocal, environ, objects, last, callers>>

(***************************************************************************)
(* Sequence helpers.                                                       *)
(***************************************************************************)
Min(a, b) == IF a < b THEN a ELSE b

Count(s, x) == Cardinality({i \in DOMAIN s : s[i] = x})

(***************************************************************************)
(* The environment of one request: how the database answers the request's  *)
(* connection attempts, and how the object store answers.                  *)
(*   failFirst  the first failFirst connection attempts of the request     *)
(*              fail (0: reachable; more than any request makes:           *)
(*              unreachable for the whole request)                         *)
(*   exc        the SQLAlchemy exception class a failed attempt raises     *)
(*   text       the driver's message                                       *)
(***************************************************************************)
Unreachable == MAX_RETRIES + 3

DbEnvs ==
    { [failFirst |-> 0, exc |-> "OperationalError", text |-> ""],
      [failFirst |-> 1, exc |-> "OperationalError", text |-> "connection reset"],
      [failFirst |-> Unreachable, exc |-> "OperationalError", text |-> "connection refused"],
      [failFirst |-> Unreachable, exc |-> "InterfaceError", text |-> ""] }

DbReachable(db) == db.failFirst = 0
DbUnreachable(db) == db.failFirst >= Unreachable

\* str(e) of a SQLAlchemy DBAPIError: "(<driver exception>) <driver message>"
DbExc(db) == [type |-> db.exc, msg |-> "(" \o db.exc \o ") " \o db.text]

\* The k-th connection attempt of the request (k = 1, 2, ...).
ConnOk(db, k) == k > db.failFirst


(***************************************************************************)
(* database.py                                                             *)
(***************************************************************************)

\* create_db_engine: the retry loop, from attempt `attempt` (0-based) on.
\* Only OperationalError is caught and retried; any other exception of
\* create_engine / connect leaves the loop at once.  When the loop ends with
\* no attempt made, last_exception is still None and "raise last_exception"
\* raises TypeError.
RECURSIVE RetryLoop(_, _, _, _, _, _)
RetryLoop(db, attempt, max_retries, retry_delay, calls, last_exception) ==
    IF attempt >= max_retries
    THEN [ok |-> FALSE,
          exc |-> IF attempt = 0
                  THEN [type |-> "TypeError",
                        msg |-> "exceptions must derive from BaseException"]
                  ELSE last_exception,
          calls |-> calls, attempts |-> attempt]
    ELSE IF ConnOk(db, attempt + 1)
    THEN [ok |-> TRUE, exc |-> NULL, calls |-> Append(calls, "connect:ok"),
          attempts |-> attempt + 1]
    ELSE IF db.exc = "OperationalError"
    THEN LET wait_time == retry_delay * (2 ^ attempt)
             failed == Append(calls, "connect:fail")
             slept == IF attempt < max_retries - 1
                      THEN Append(failed, "sleep:" \o ToString(wait_time))
                      ELSE failed
         IN  RetryLoop(db, attempt + 1, max_retries, retry_delay, slept, DbExc(db))
    ELSE [ok |-> FALSE, exc |-> DbExc(db), calls |-> Append(calls, "connect:fail"),
          attempts |-> attempt + 1]

\* create_db_engine with range(max_retries + 1) for range(max_retries).
create_db_engine_one_more(db, max_retries, retry_delay) ==
    RetryLoop(db, 0, max_retries + 1, retry_delay, <<>>, NULL)

create_db_engine(db, max_retries, retry_delay) ==
    RetryLoop(db, 0, max_retries, retry_delay, <<>>, NULL)

\* get_engine: [ok, exc, engine (the new _engine), calls, attempts]
get_engine(db, engine) ==
    IF engine = NULL
    THEN LET r == create_db_engine(db, MAX_RETRIES, RETRY_DELAY)
         IN  [ok |-> r.ok, exc |-> r.exc, calls |-> r.calls, attempts |-> r.attempts,
              engine |-> IF r.ok THEN "engine" ELSE NULL]
    ELSE [ok |-> TRUE, exc |-> NULL, calls |-> <<>>, attempts |-> 0, engine |-> engine]

\* get_session_factory: as get_engine, with the new _SessionLocal as factory.
get_session_factory(db, engine, factory) ==
    IF factory = NULL
    THEN LET e == get_engine(db, engine)
         IN  [ok |-> e.ok, exc |-> e.exc, calls |-> e.calls, attempts |-> e.attempts,
              engine |-> e.engine,
              factory |-> IF e.ok THEN "sessionmaker" ELSE NULL]
    ELSE [ok |-> TRUE, exc |-> NULL, calls |-> <<>>, attempts |-> 0,
          engine |-> engine, factory |-> factory]

\* get_db without its "finally": the session of a request that raised is
\* rolled back and never closed.
get_db_exit_no_finally(raised) ==
    IF raised THEN <<"rollback">> ELSE <<"commit", "close">>

\* get_db after the yield: what the dependency does to its session when the
\* handler returned (raised = FALSE) or raised (raised = TRUE).  The raised
\* exception is re-raised unchanged.
get_db_exit(raised) ==
    IF raised THEN <<"rollback", "close">> ELSE <<"commit", "close">>

\* Task with is_active defaulting to False.
TaskDefaultInactive(id, body, created_at, updated_at) ==
    [id |-> id, title |-> body.title, description |-> body.description,
     status |-> body.status, created_at |-> created_at, updated_at |-> updated_at,
     is_active |-> FALSE]

\* A row of Task as the INSERT of create_item writes it: the column defaults
\* of created_at and updated_at are two calls of datetime.utcnow.
Task(id, body, created_at, updated_at) ==
    [id |-> id, title |-> body.title, description |-> body.description,
     status |-> body.status, created_at |-> created_at, updated_at |-> updated_at,
     is_active |-> TRUE]

\* datetime.isoformat
isoformat(t) == "iso:" \o ToString(t)

\* Task.to_dict
to_dict(task) ==
    [id |-> task.id, title |-> task.title, description |-> task.description,
     status |-> task.status,
     created_at |-> IF task.created_at # NoTime THEN isoformat(task.created_at) ELSE NULL,
     updated_at |-> IF task.updated_at # NoTime THEN isoformat(task.updated_at) ELSE NULL,
     is_active |-> task.is_active]

\* "[task.to_dict() for task in tasks]"
to_dicts(rows) == [i \in 1..Len(rows) |-> to_dict(rows[i])]

\* test_db_connection that reports the engine it holds without running
\* SELECT 1 on a connection.
test_db_connection_engine_only(db, engine) ==
    LET e == get_engine(db, engine)
    IN  [engine |-> e.engine, calls |-> e.calls,
         result |-> IF e.ok
                    THEN [status |-> "healthy", database |-> "connected", error |-> NULL]
                    ELSE [status |-> "unhealthy", database |-> "disconnected",
                          error |-> e.exc.msg]]

\* test_db_connection: get_engine, then one more connection for SELECT 1.
test_db_connection(db, engine) ==
    LET e == get_engine(db, engine)
        connected == e.ok /\ ConnOk(db, e.attempts + 1)
        exc == IF e.ok THEN DbExc(db) ELSE e.exc
        calls == IF e.ok
                 THEN Append(e.calls, IF connected THEN "connect:ok" ELSE "connect:fail")
                 ELSE e.calls
    IN  [engine |-> e.engine, calls |-> calls,
         result |-> IF connected
                    THEN [status |-> "healthy", database |-> "connected", error |-> NULL]
                    ELSE [status |-> "unhealthy", database |-> "disconnected",
                          error |-> exc.msg]]

(***************************************************************************)
(* main.py: the mapping of exceptions to responses.                        *)
(***************************************************************************)
HTTPException(status_code, detail) ==
    [type |-> "HTTPException", status_code |-> status_code, msg |-> detail]

\* str.lower on the values DEBUG takes here
lower(s) == IF s = "True" THEN "true" ELSE s

\* os.environ.get("DEBUG", "false").lower() == "true"
DebugOn(env) == lower(IF env.DEBUG = NULL THEN "false" ELSE env.DEBUG) = "true"

\* global_exception_handler
global_exception_handler(env, exc) ==
    [status |-> 500,
     body |-> [detail |-> "An unexpected error occurred",
               error |-> IF DebugOn(env) THEN exc.msg ELSE NULL]]

\* FastAPI's answer to a RequestValidationError (no handler of main.py
\* overrides it).
validation_error_response ==
    [status |-> 422, body |-> [detail |-> "validation error", error |-> NULL]]

\* The response to an exception that left the handler or its dependency.
ExceptionResponse(env, exc) ==
    IF exc.type = "HTTPException"
    THEN [status |-> exc.status_code, body |-> [detail |-> exc.msg, error |-> NULL]]
    ELSE IF exc.type = "RequestValidationError"
    THEN validation_error_response
    ELSE global_exception_handler(env, exc)


(***************************************************************************)
(* The record of a request, kept in `last`.                                *)
(*   op, req      the endpoint and its input                               *)
(*   db, s3       how the backends answered during the request             *)
(*   status, body the HTTP response                                        *)
(*   raised       the exception that left the handler (NoExc: it returned) *)
(*   sess         what was done to the request's session, in order         *)
(*   calls        the backend calls of the request, in order               *)
(*   logs         the log_request lines of the request                     *)
(*   put          the object the request wrote in the bucket (NoPut: none) *)
(*   preTasks, preObjects   the table and the bucket before the request    *)
(***************************************************************************)
NoExc == [type |-> NULL, msg |-> NULL]

NoPut == [key |-> NULL, body |-> NULL, content_type |-> NULL]

Record(op, req, db, s3, resp, raised, sess, calls, logs) ==
    [op |-> op, req |-> req, db |-> db, s3 |-> s3,
     status |-> resp.status, body |-> resp.body, raised |-> raised,
     sess |-> sess, calls |-> calls, logs |-> logs, put |-> NoPut,
     preTasks |-> tasks, preObjects |-> objects]

\* log_request
log_request(method, path, status_code) ==
    [method |-> method, path |-> path, status |-> status_code]

\* The request whose get_db dependency raised before yielding a session:
\* the handler never runs.
DependencyFailed(op, req, db, acq) ==
    /\ _engine' = acq.engine
    /\ _SessionLocal' = acq.factory
    /\ last' = Record(op, req, db, NULL, ExceptionResponse(environ, acq.exc),
                      acq.exc, <<>>, acq.calls, <<>>)
    /\ UNCHANGED <<tasks, nextId, now, environ, objects>>

\* The request whose handler (or the validation of its parameters) raised
\* exc with the session open: get_db rolls back, re-raises, closes.
HandlerRaised(op, req, db, acq, exc, sess, calls) ==
    /\ _engine' = acq.engine
    /\ _SessionLocal' = acq.factory
    /\ last' = Record(op, req, db, NULL, ExceptionResponse(environ, exc), exc,
                      <<"open">> \o sess \o get_db_exit(TRUE), acq.calls \o calls, <<>>)
    /\ UNCHANGED <<tasks, nextId, now, environ, objects>>

(***************************************************************************)
(* GET /health                                                             *)
(***************************************************************************)
health_check(db) ==
    LET db_status == test_db_connection(db, _engine)
        response == [status |-> IF db_status.result.status = "healthy"
                                THEN "healthy" ELSE "degraded",
                     timestamp |-> isoformat(now),
                     database |-> db_status.result,
                     version |-> "1.0.0"]
    IN  /\ _engine' = db_status.engine
        /\ last' = Record("health", NULL, db, NULL,
                          [status |-> 200, body |-> response], NoExc,
                          <<>>, db_status.calls,
                          <<log_request("GET", "/health", 200)>>)
        /\ UNCHANGED <<tasks, nextId, now, _SessionLocal, environ, objects>>

(***************************************************************************)
(* POST /items                                                             *)
(***************************************************************************)
\* TaskCreate: title = Field(..., min_length=1, max_length=255); a title is
\* represented by its length (has_title: the field is present).
\* status = Field("pending").
TaskCreateValid(body) ==
    /\ body.has_title
    /\ body.title >= MIN_TITLE_LEN
    /\ body.title <= MAX_TITLE_LEN

TaskCreate(body) ==
    [title |-> body.title, description |-> body.description,
     status |-> IF body.status = NULL THEN "pending" ELSE body.status]

\* The status check at the head of create_item.
StatusAccepted(status) == status \in valid_statuses

create_item(body, db, d) ==
    LET acq == get_session_factory(db, _engine, _SessionLocal)
        task == TaskCreate(body)
    IN  IF ~acq.ok THEN /\ d = 0
                        /\ DependencyFailed("create", body, db, acq)
        ELSE IF ~TaskCreateValid(body)
        THEN /\ d = 0
             /\ HandlerRaised("create", body, db, acq,
                    [type |-> "RequestValidationError", msg |-> "title"], <<>>, <<>>)
        ELSE IF ~StatusAccepted(task.status)
        THEN /\ d = 0
             /\ HandlerRaised("create", body, db, acq,
                    HTTPException(400, "Invalid status. Must be one of: pending, in_progress, completed"),
                    <<>>, <<>>)
        ELSE IF ~ConnOk(db, acq.attempts + 1)
        THEN \* db.commit() raises: rollback in the handler, HTTPException(500)
             /\ d = 0
             /\ HandlerRaised("create", body, db, acq,
                    HTTPException(500, "Failed to create item: " \o DbExc(db).msg),
                    <<"commit_error", "rollback">>, <<"insert:fail">>)
        ELSE LET db_task == Task(nextId, task, now, now + d)
             IN  /\ now + d <= MaxClock
                 /\ Cardinality({i \in DOMAIN tasks : tasks[i].created_at >= 0}) < MaxTasks
                 /\ tasks' = Append(tasks, db_task)
                 /\ nextId' = nextId + 1
                 /\ now' = now + d
                 /\ _engine' = acq.engine
                 /\ _SessionLocal' = acq.factory
                 /\ last' = Record("create", body, db, NULL,
                                   [status |-> 201, body |-> db_task], NoExc,
                                   <<"open", "commit", "refresh">> \o get_db_exit(FALSE),
                                   acq.calls \o <<"insert:ok", "select:ok">>,
                                   <<log_request("POST", "/items", 201)>>)
                 /\ UNCHANGED <<environ, objects>>


(***************************************************************************)
(* GET /items                                                              *)
(***************************************************************************)
\* skip = Query(0, ge=0), limit = Query(100, ge=1, le=1000)
ListParamsValid(q) ==
    /\ q.skip >= 0
    /\ q.limit >= 1
    /\ q.limit <= MAX_LIMIT

\* Python truthiness of Optional[str]
Truthy(s) == s # NULL /\ s # ""

\* The query without its is_active filter.
AllTasks(rows) == rows

\* db.query(Task).filter(Task.is_active == True)
ActiveTasks(rows) == SelectSeq(rows, LAMBDA t : t.is_active)

\* "if status: query = query.filter(Task.status == status)"
StatusFilter(rows, status) ==
    IF Truthy(status) THEN SelectSeq(rows, LAMBDA t : t.status = status) ELSE rows

\* query.offset(skip).limit(limit).all()
OffsetLimit(rows, skip, limit) ==
    SubSeq(rows, skip + 1, Min(Len(rows), skip + limit))

get_items(q, db) ==
    LET acq == get_session_factory(db, _engine, _SessionLocal)
    IN  IF ~acq.ok THEN DependencyFailed("list", q, db, acq)
        ELSE IF ~ListParamsValid(q)
        THEN HandlerRaised("list", q, db, acq,
                 [type |-> "RequestValidationError", msg |-> "query"], <<>>, <<>>)
        ELSE IF ~ConnOk(db, acq.attempts + 1)
        THEN HandlerRaised("list", q, db, acq,
                 HTTPException(500, "Failed to fetch items: " \o DbExc(db).msg),
                 <<>>, <<"select:fail">>)
        ELSE LET found == OffsetLimit(StatusFilter(ActiveTasks(tasks), q.status),
                                      q.skip, q.limit)
             IN  /\ _engine' = acq.engine
                 /\ _SessionLocal' = acq.factory
                 /\ last' = Record("list", q, db, NULL,
                                   [status |-> 200, body |-> found], NoExc,
                                   <<"open">> \o get_db_exit(FALSE),
                                   acq.calls \o <<"select:ok">>,
                                   <<log_request("GET", "/items", 200)>>)
                 /\ UNCHANGED <<tasks, nextId, now, environ, objects>>

(***************************************************************************)
(* GET /items/{item_id}                                                    *)
(***************************************************************************)
\* The lookup by id alone.
FirstTaskAnyRow(rows, item_id) ==
    SelectSeq(rows, LAMBDA t : t.id = item_id)

\* db.query(Task).filter(Task.id == item_id, Task.is_active == True).first()
FirstTask(rows, item_id) ==
    SelectSeq(rows, LAMBDA t : t.id = item_id /\ t.is_active)

get_item(item_id, db) ==
    LET acq == get_session_factory(db, _engine, _SessionLocal)
    IN  IF ~acq.ok THEN DependencyFailed("get", item_id, db, acq)
        ELSE IF ~ConnOk(db, acq.attempts + 1)
        THEN HandlerRaised("get", item_id, db, acq, DbExc(db), <<>>, <<"select:fail">>)
        ELSE LET task == FirstTask(tasks, item_id)
             IN  IF task = <<>>
                 THEN HandlerRaised("get", item_id, db, acq,
                          HTTPException(404, "Task not found"), <<>>, <<"select:ok">>)
                 ELSE /\ _engine' = acq.engine
                      /\ _SessionLocal' = acq.factory
                      /\ last' = Record("get", item_id, db, NULL,
                                        [status |-> 200, body |-> Head(task)], NoExc,
                                        <<"open">> \o get_db_exit(FALSE),
                                        acq.calls \o <<"select:ok">>, <<>>)
                      /\ UNCHANGED <<tasks, nextId, now, environ, objects>>


(***************************************************************************)
(* utils.py                                                                *)
(***************************************************************************)
\* How the object store answers the request's one call.
S3Envs == {"ok", "ClientError", "NoCredentialsError"}

S3Exc(s3) ==
    IF s3 = "NoCredentialsError"
    THEN [type |-> "NoCredentialsError", msg |-> "Unable to locate credentials"]
    ELSE [type |-> "ClientError", msg |-> "An error occurred (AccessDenied)"]

\* get_s3_bucket: "if not bucket" rejects the unset and the empty value.
BucketSet(env) == env.S3_BUCKET # NULL /\ env.S3_BUCKET # ""

BucketError == [type |-> "ValueError", msg |-> "S3_BUCKET environment variable is not set"]

\* A file name is a sequence of characters.
RECURSIVE Join(_)
Join(chars) == IF chars = <<>> THEN "" ELSE Head(chars) \o Join(Tail(chars))

\* The position of the last "." of chars, 0 when there is none.
LastDot(chars) ==
    LET dots == {i \in DOMAIN chars : chars[i] = "."}
    IN  IF dots = {} THEN 0 ELSE CHOOSE i \in dots : \A j \in dots : j <= i

\* datetime.utcnow().strftime("%Y%m%d_%H%M%S"): the stamp of the second.
strftime(t) == "T" \o ToString(t \div TicksPerSecond)

\* str(uuid.uuid4())[:8]; a uuid is [head: its first 8 characters, rest].
unique_id_of(uuid) == uuid.head

\* generate_unique_filename
generate_unique_filename(original_filename, t, uuid) ==
    LET timestamp == strftime(t)
        unique_id == unique_id_of(uuid)
        dot == LastDot(original_filename)
    IN  IF dot > 0
        THEN LET name == SubSeq(original_filename, 1, dot - 1)
                 ext == SubSeq(original_filename, dot + 1, Len(original_filename))
             IN  timestamp \o "_" \o unique_id \o "_" \o Join(name) \o "." \o Join(ext)
        ELSE timestamp \o "_" \o unique_id \o "_" \o Join(original_filename)

s3_url_of(bucket, s3_key) ==
    "https://" \o bucket \o ".s3.us-east-1.amazonaws.com/" \o s3_key

\* upload_file_to_s3: [ok, exc, calls, put (the object written, or NULL), result]
upload_file_to_s3(env, s3, file, t, uuid) ==
    IF ~BucketSet(env)
    THEN [ok |-> FALSE, exc |-> BucketError, calls |-> <<"s3_client", "get_s3_bucket">>,
          key |-> NULL, s3_url |-> NULL]
    ELSE LET unique_filename == generate_unique_filename(file.filename, t, uuid)
             s3_key == "uploads/" \o unique_filename
             calls == <<"s3_client", "get_s3_bucket", "upload_fileobj">>
         IN  IF s3 = "ok"
             THEN [ok |-> TRUE, exc |-> NULL, calls |-> calls, key |-> s3_key,
                   s3_url |-> s3_url_of(env.S3_BUCKET, s3_key)]
             ELSE IF s3 = "NoCredentialsError"
             THEN [ok |-> FALSE,
                   exc |-> [type |-> "ValueError", msg |-> "AWS credentials are not configured"],
                   calls |-> calls, key |-> NULL, s3_url |-> NULL]
             ELSE [ok |-> FALSE, exc |-> S3Exc(s3), calls |-> calls,
                   key |-> NULL, s3_url |-> NULL]

\* create_backup: the document and where it goes.
backup_content(data, table_name, t) ==
    [backup_timestamp |-> isoformat(t), table_name |-> table_name,
     record_count |-> Len(data), data |-> data]

create_backup(env, s3, data, table_name, t) ==
    IF ~BucketSet(env)
    THEN [ok |-> FALSE, exc |-> BucketError, calls |-> <<"s3_client", "get_s3_bucket">>,
          key |-> NULL, s3_url |-> NULL, record_count |-> 0, content |-> NULL]
    ELSE LET s3_key == "backups/" \o table_name \o "_backup_" \o strftime(t) \o ".json"
             calls == <<"s3_client", "get_s3_bucket", "put_object">>
         IN  IF s3 = "ok"
             THEN [ok |-> TRUE, exc |-> NULL, calls |-> calls, key |-> s3_key,
                   s3_url |-> s3_url_of(env.S3_BUCKET, s3_key),
                   record_count |-> Len(data),
                   content |-> backup_content(data, table_name, t)]
             ELSE [ok |-> FALSE, exc |-> S3Exc(s3), calls |-> calls, key |-> NULL,
                   s3_url |-> NULL, record_count |-> 0, content |-> NULL]

\* The keys of the bucket after a put under key (a put under a key that is
\* present replaces the object).
PutObject(bucket, key) == bucket \cup {key}

(***************************************************************************)
(* POST /upload                                                            *)
(***************************************************************************)
\* The size check with >= for >.
TooLargeInclusive(size) == size >= max_size

\* "if len(file_content) > max_size"
TooLarge(size) == size > max_size

\* upload_file without its "except ValueError" clause.
UploadErrorGeneric(exc) ==
    IF exc.type = "HTTPException" THEN exc
    ELSE HTTPException(500, "Failed to upload file: " \o exc.msg)

\* The response to an exception raised in upload_file's try block.
UploadError(exc) ==
    IF exc.type = "HTTPException" THEN exc
    ELSE IF exc.type = "ValueError" THEN HTTPException(500, exc.msg)
    ELSE HTTPException(500, "Failed to upload file: " \o exc.msg)

UploadFailed(file, s3, exc, calls) ==
    /\ last' = Record("upload", file, NULL, s3, ExceptionResponse(environ, exc), exc,
                      <<>>, calls, <<>>)
    /\ UNCHANGED <<tasks, nextId, now, _engine, _SessionLocal, environ, objects>>

upload_file(file, s3, uuid) ==
    IF file.filename = <<>>
    THEN UploadFailed(file, s3, HTTPException(400, "No filename provided"), <<>>)
    ELSE IF TooLarge(file.size)
    THEN UploadFailed(file, s3,
             UploadError(HTTPException(413, "File too large. Maximum size is 10MB")), <<>>)
    ELSE LET result == upload_file_to_s3(environ, s3, file, now, uuid)
         IN  IF ~result.ok
             THEN UploadFailed(file, s3, UploadError(result.exc), result.calls)
             ELSE /\ result.key \in objects \/ Cardinality(objects) < MaxObjects
                  /\ objects' = PutObject(objects, result.key)
                  /\ last' = [Record("upload", file, NULL, s3,
                                 [status |-> 200,
                                  body |-> [success |-> TRUE, s3_url |-> result.s3_url,
                                            original_filename |-> Join(file.filename),
                                            message |-> "File uploaded successfully"]],
                                 NoExc, <<>>, result.calls,
                                 <<log_request("POST", "/upload", 200)>>)
                              EXCEPT !.put = [key |-> result.key, body |-> file.content,
                                              content_type |-> file.content_type]]
                  /\ UNCHANGED <<tasks, nextId, now, _engine, _SessionLocal, environ>>

(***************************************************************************)
(* POST /backup                                                            *)
(***************************************************************************)
\* The response to an exception raised in trigger_backup's try block.
BackupError(exc) ==
    IF exc.type = "ValueError" THEN HTTPException(500, exc.msg)
    ELSE HTTPException(500, "Failed to create backup: " \o exc.msg)

trigger_backup(db, s3) ==
    LET acq == get_session_factory(db, _engine, _SessionLocal)
    IN  IF ~acq.ok THEN DependencyFailed("backup", NULL, db, acq)
        ELSE IF ~ConnOk(db, acq.attempts + 1)
        THEN HandlerRaised("backup", NULL, db, acq, BackupError(DbExc(db)),
                           <<>>, <<"select:fail">>)
        ELSE LET tasks_data == to_dicts(ActiveTasks(tasks))
                 result == create_backup(environ, s3, tasks_data, "tasks", now)
             IN  IF ~result.ok
                 THEN /\ _engine' = acq.engine
                      /\ _SessionLocal' = acq.factory
                      /\ last' = Record("backup", NULL, db, s3,
                                     ExceptionResponse(environ, BackupError(result.exc)),
                                     BackupError(result.exc),
                                     <<"open">> \o get_db_exit(TRUE),
                                     acq.calls \o <<"select:ok">> \o result.calls, <<>>)
                      /\ UNCHANGED <<tasks, nextId, now, environ, objects>>
                 ELSE /\ result.key \in objects \/ Cardinality(objects) < MaxObjects
                      /\ objects' = PutObject(objects, result.key)
                      /\ _engine' = acq.engine
                      /\ _SessionLocal' = acq.factory
                      /\ last' = [Record("backup", NULL, db, s3,
                                     [status |-> 200,
                                      body |-> [success |-> TRUE, s3_url |-> result.s3_url,
                                                record_count |-> result.record_count,
                                                backup_timestamp |-> result.content.backup_timestamp,
                                                message |-> "Backup created successfully"]],
                                     NoExc, <<"open">> \o get_db_exit(FALSE),
                                     acq.calls \o <<"select:ok">> \o result.calls,
                                     <<log_request("POST", "/backup", 200)>>)
                                  EXCEPT !.put = [key |-> result.key,
                                                  body |-> result.content,
                                                  content_type |-> "application/json"]]
                      /\ UNCHANGED <<tasks, nextId, now, environ>>


(***************************************************************************)
(* Startup, the clock, and the specifications.                             *)
(***************************************************************************)
\* startup_event: init_db(), whose failure is only logged.  It runs before
\* the first request, and not at all under Mangum(lifespan="off").
startup_event(db) ==
    LET e == get_engine(db, _engine)
    IN  /\ last.op = "boot"
        /\ _engine' = e.engine
        /\ last' = Record("startup", NULL, db, NULL, [status |-> 0, body |-> NULL],
                          NoExc, <<>>, e.calls, <<>>)
        /\ UNCHANGED <<tasks, nextId, now, _SessionLocal, environ, objects>>

NoRequest ==
    [op |-> "boot", req |-> NULL, db |-> NULL, s3 |-> NULL, status |-> 0, body |-> NULL,
     raised |-> NoExc, sess |-> <<>>, calls |-> <<>>, logs |-> <<>>, put |-> NoPut,
     preTasks |-> <<>>, preObjects |-> {}]

\* No request is being answered.
Idle == last.op \in {"boot", "none"}

\* The response is out; the process takes up the next request.
next_request ==
    /\ ~Idle
    /\ last' = [NoRequest EXCEPT !.op = "none"]
    /\ UNCHANGED <<tasks, nextId, now, _engine, _SessionLocal, environ, objects>>

\* The clock advances between requests.
Tick ==
    /\ Idle
    /\ now < MaxClock
    /\ now' = now + 1
    /\ UNCHANGED <<tasks, nextId, _engine, _SessionLocal, environ, objects, last>>

\* The request inputs explored.
CreateBodies ==
    { [has_title |-> TRUE, title |-> 1, description |-> NULL, status |-> NULL],
      [has_title |-> TRUE, title |-> 255, description |-> "d", status |-> "completed"],
      [has_title |-> TRUE, title |-> 1, description |-> NULL, status |-> "archived"],
      [has_title |-> TRUE, title |-> 255, description |-> "d", status |-> ""],
      [has_title |-> TRUE, title |-> 0, description |-> NULL, status |-> "pending"],
      [has_title |-> TRUE, title |-> 256, description |-> NULL, status |-> "archived"],
      [has_title |-> FALSE, title |-> 0, description |-> NULL, status |-> "in_progress"] }

ListQueries ==
    [skip : {0, 1}, limit : {1, MAX_LIMIT}, status : {NULL, "", "completed"}]
    \cup { [skip |-> -1, limit |-> 1, status |-> NULL],
           [skip |-> 0, limit |-> 0, status |-> NULL],
           [skip |-> 0, limit |-> MAX_LIMIT + 1, status |-> "completed"] }

ItemIds == 1..4

Files ==
    { [filename |-> <<>>, size |-> 1, content_type |-> "text/plain", content |-> "x"],
      [filename |-> <<"a", ".", "t">>, size |-> 1, content_type |-> "text/plain", content |-> "x"],
      [filename |-> <<"a", ".", "t">>, size |-> max_size, content_type |-> NULL, content |-> "y"],
      [filename |-> <<"a", ".", "t">>, size |-> max_size + 1, content_type |-> NULL, content |-> "z"],
      [filename |-> <<"R", "E", "A", "D">>, size |-> 0, content_type |-> NULL, content |-> ""] }

UUIDs ==
    { [head |-> "0a1b2c3d", rest |-> "-1"], [head |-> "0a1b2c3d", rest |-> "-2"],
      [head |-> "ffffffff", rest |-> "-1"] }

Environs ==
    { [S3_BUCKET |-> NULL, DEBUG |-> "false"],
      [S3_BUCKET |-> "", DEBUG |-> "True"],
      [S3_BUCKET |-> "bkt", DEBUG |-> NULL] }

\* Rows written to the table before this process started, one of them
\* soft-deleted by hand and one with updated_at NULL.
SeedTasks ==
    << [id |-> 1, title |-> 1, description |-> NULL, status |-> "completed",
        created_at |-> -4, updated_at |-> -3, is_active |-> TRUE],
       [id |-> 2, title |-> 1, description |-> "d", status |-> "completed",
        created_at |-> -3, updated_at |-> -2, is_active |-> FALSE],
       [id |-> 3, title |-> 255, description |-> NULL, status |-> "pending",
        created_at |-> -2, updated_at |-> NoTime, is_active |-> TRUE] >>

\* A table that holds nothing a read may show: its one row is soft-deleted.
SeedInactive ==
    << [id |-> 1, title |-> 1, description |-> NULL, status |-> "pending",
        created_at |-> -4, updated_at |-> -2, is_active |-> FALSE] >>

\* The threads of the server's pool, and a thread that is in no call.
Threads == 1..NumThreads

NoCall == [kind |-> NULL, pc |-> "idle", engine |-> NULL, factory |-> NULL,
           made |-> FALSE]

InitWith(rows) ==
    /\ tasks = rows
    /\ nextId = Len(rows) + 1
    /\ now = 0
    /\ _engine = NULL
    /\ _SessionLocal = NULL
    /\ environ \in Environs
    /\ objects = {}
    /\ last = NoRequest
    /\ callers = [t \in Threads |-> NoCall]

\* The process starts on an empty table.
Init == InitWith(<<>>)

\* The process starts on a table that holds rows.
InitSeeded == InitWith(SeedTasks) \/ InitWith(SeedInactive)

Next ==
    \/ \E db \in DbEnvs : startup_event(db) /\ UNCHANGED callers
    \/ Tick /\ UNCHANGED callers
    \/ next_request /\ UNCHANGED callers
    \/ \E db \in DbEnvs : Idle /\ health_check(db) /\ UNCHANGED callers
    \/ \E q \in ListQueries, db \in DbEnvs :
            Idle /\ get_items(q, db) /\ UNCHANGED callers
    \/ \E body \in CreateBodies, db \in DbEnvs, d \in {0, 1} :
            Idle /\ create_item(body, db, d) /\ UNCHANGED callers
    \/ \E item_id \in ItemIds, db \in DbEnvs :
            Idle /\ get_item(item_id, db) /\ UNCHANGED callers
    \/ \E file \in Files, s3 \in S3Envs, uuid \in UUIDs :
            Idle /\ upload_file(file, s3, uuid) /\ UNCHANGED callers
    \/ \E db \in DbEnvs, s3 \in S3Envs :
            Idle /\ trigger_backup(db, s3) /\ UNCHANGED callers

Spec == Init /\ [][Next]_vars

SpecSeeded == InitSeeded /\ [][Next]_vars


(***************************************************************************)
(* create_db_engine on its own, called with any max_retries and            *)
(* retry_delay against any database behaviour.                             *)
(***************************************************************************)
RetryEnvs ==
    [failFirst : 0..MaxFailFirst, exc : {"OperationalError", "InterfaceError"},
     text : {"timeout"}]

\* One call of create_db_engine(max_retries, retry_delay): what it did is
\* kept in `last` (body: the engine returned, raised: the exception).
call_create_db_engine(db, max_retries, retry_delay) ==
    LET r == create_db_engine(db, max_retries, retry_delay)
    IN  /\ last' = Record("create_db_engine",
                          [max_retries |-> max_retries, retry_delay |-> retry_delay],
                          db, NULL,
                          [status |-> 0, body |-> IF r.ok THEN "engine" ELSE NULL],
                          IF r.ok THEN NoExc ELSE r.exc, <<>>, r.calls, <<>>)
        /\ UNCHANGED <<tasks, nextId, now, _engine, _SessionLocal, environ, objects>>

NextRetry ==
    \/ next_request /\ UNCHANGED callers
    \/ \E db \in RetryEnvs, max_retries \in 0..MaxRetriesArg,
          retry_delay \in 1..MaxDelayArg :
            /\ Idle
            /\ call_create_db_engine(db, max_retries, retry_delay)
            /\ UNCHANGED callers

SpecRetry == Init /\ [][NextRetry]_vars


(***************************************************************************)
(* get_session_factory and get_engine called from several threads (sync    *)
(* dependencies such as get_db run in the server's thread pool).  Each     *)
(* read and each write of the globals _engine and _SessionLocal is a step  *)
(* of its own; a thread keeps in callers[t]                                *)
(*   kind     "get_db" (get_session_factory) or "get_engine" (direct call) *)
(*   pc       where it is                                                  *)
(*   engine   the engine it created or was returned                        *)
(*   factory  the session factory it was returned                          *)
(*   made     its create_db_engine returned an engine                      *)
(***************************************************************************)
ThreadFrame == <<tasks, nextId, now, environ, objects, last>>

\* A thread enters get_session_factory (from get_db) or get_engine (from
\* test_db_connection, init_db).
begin_call(t, kind) ==
    /\ callers[t].pc = "idle"
    /\ callers' = [callers EXCEPT ![t].kind = kind,
                                  ![t].pc = IF kind = "get_db" THEN "sf_check"
                                            ELSE "ge_check"]
    /\ UNCHANGED <<ThreadFrame, _engine, _SessionLocal>>

\* get_session_factory: "if _SessionLocal is None"
sf_check(t) ==
    /\ callers[t].pc = "sf_check"
    /\ callers' = [callers EXCEPT ![t].pc = IF _SessionLocal = NULL THEN "ge_check"
                                            ELSE "sf_return"]
    /\ UNCHANGED <<ThreadFrame, _engine, _SessionLocal>>

\* get_engine: "if _engine is None"
ge_check(t) ==
    /\ callers[t].pc = "ge_check"
    /\ callers' = [callers EXCEPT ![t].pc = IF _engine = NULL THEN "ge_create"
                                            ELSE "ge_return"]
    /\ UNCHANGED <<ThreadFrame, _engine, _SessionLocal>>

\* get_engine: the call create_db_engine(); the engine it returns is a new
\* object, named after the thread.  An exception leaves get_engine (and
\* get_session_factory) with the globals as they are.
ge_create(t, db) ==
    LET r == create_db_engine(db, MAX_RETRIES, RETRY_DELAY)
    IN  /\ callers[t].pc = "ge_create"
        /\ callers' = IF r.ok
                      THEN [callers EXCEPT ![t].engine = "engine" \o ToString(t),
                                           ![t].made = TRUE,
                                           ![t].pc = "ge_assign"]
                      ELSE [callers EXCEPT ![t].pc = "raised"]
        /\ UNCHANGED <<ThreadFrame, _engine, _SessionLocal>>

\* get_engine: "_engine = <the engine created>"
ge_assign(t) ==
    /\ callers[t].pc = "ge_assign"
    /\ _engine' = callers[t].engine
    /\ callers' = [callers EXCEPT ![t].pc = "ge_return"]
    /\ UNCHANGED <<ThreadFrame, _SessionLocal>>

\* get_engine: "return _engine"
ge_return(t) ==
    /\ callers[t].pc = "ge_return"
    /\ callers' = [callers EXCEPT ![t].engine = _engine,
                                  ![t].pc = IF callers[t].kind = "get_db"
                                            THEN "sf_assign" ELSE "done"]
    /\ UNCHANGED <<ThreadFrame, _engine, _SessionLocal>>

\* get_session_factory: "_SessionLocal = sessionmaker(bind=get_engine())"
sf_assign(t) ==
    /\ callers[t].pc = "sf_assign"
    /\ _SessionLocal' = "sessionmaker:" \o callers[t].engine
    /\ callers' = [callers EXCEPT ![t].pc = "sf_return"]
    /\ UNCHANGED <<ThreadFrame, _engine>>

\* get_session_factory: "return _SessionLocal"
sf_return(t) ==
    /\ callers[t].pc = "sf_return"
    /\ callers' = [callers EXCEPT ![t].factory = _SessionLocal, ![t].pc = "done"]
    /\ UNCHANGED <<ThreadFrame, _engine, _SessionLocal>>

\* The thread whose call raised serves a later request.
call_again(t) ==
    /\ callers[t].pc = "raised"
    /\ callers' = [callers EXCEPT ![t] = NoCall]
    /\ UNCHANGED <<ThreadFrame, _engine, _SessionLocal>>

NextConcurrent ==
    \/ \E t \in Threads, kind \in {"get_db", "get_engine"} : begin_call(t, kind)
    \/ \E t \in Threads : sf_check(t)
    \/ \E t \in Threads : ge_check(t)
    \/ \E t \in Threads, db \in DbEnvs : ge_create(t, db)
    \/ \E t \in Threads : ge_assign(t)
    \/ \E t \in Threads : ge_return(t)
    \/ \E t \in Threads : sf_assign(t)
    \/ \E t \in Threads : sf_return(t)
    \/ \E t \in Threads : call_again(t)

SpecConcurrent == Init /\ [][NextConcurrent]_vars


(***************************************************************************)
(* The claims.                                                             *)
(***************************************************************************)

\* C1: every POST /items whose title is valid and whose status is none of
\* pending, in_progress, completed is answered 400, and the rows of the
\* table after the request are the rows before it.
C1_InvalidStatusIs400 ==
    ( /\ last.op = "create"
      /\ TaskCreateValid(last.req)
      /\ TaskCreate(last.req).status \notin {"pending", "in_progress", "completed"} )
    => (last.status = 400 /\ tasks = last.preTasks)

\* C2: the Task a successful create returns has a positive id that no other
\* row of the table has, created_at equal to updated_at, and is_active true.
C2_CreatedTaskIsFresh ==
    (last.op = "create" /\ last.status = 201)
    => /\ last.body.id > 0
       /\ \A i \in DOMAIN last.preTasks : last.preTasks[i].id # last.body.id
       /\ Cardinality({i \in DOMAIN tasks : tasks[i].id = last.body.id}) = 1
       /\ last.body.created_at = last.body.updated_at
       /\ last.body.is_active = TRUE

\* The page C3 describes: positions [skip, skip + limit) of the active rows
\* whose status is exactly the given one (of all active rows when no status
\* is given).
C3_Page(rows, q) ==
    LET active == SelectSeq(rows, LAMBDA t : t.is_active = TRUE)
        matching == IF q.status = NULL THEN active
                    ELSE SelectSeq(active, LAMBDA t : t.status = q.status)
    IN  SubSeq(matching, q.skip + 1, Min(Len(matching), q.skip + q.limit))

\* C3: for skip >= 0, limit in [1, 1000] and every given status value, a
\* GET /items that is answered 200 returns exactly the page of C3_Page.
C3_ListIsExactPage ==
    (last.op = "list" /\ last.status = 200)
    => last.body = C3_Page(last.preTasks, last.req)

\* The positions of the active rows with the id.
C4_Hits(rows, item_id) ==
    {i \in DOMAIN rows : rows[i].id = item_id /\ rows[i].is_active = TRUE}

\* C4 as stated: GET /items/{id} is answered 200 with the task when an
\* active row has the id, and 404 in every other case; the rows of the table
\* are unchanged.
C4_GetIs200Or404 ==
    last.op = "get"
    => LET hits == C4_Hits(last.preTasks, last.req)
       IN  /\ tasks = last.preTasks
           /\ hits # {} => /\ last.status = 200
                           /\ \E i \in hits : last.body = last.preTasks[i]
           /\ hits = {} => last.status = 404

\* C4 as amended: GET /items/{id} is answered 200 only with the active row
\* of that id and 404 only when no active row has it; with the database
\* reachable it is answered one of the two, with the database unreachable it
\* is answered 500; the rows of the table are unchanged in every case.
C4_GetItem ==
    last.op = "get"
    => LET hits == C4_Hits(last.preTasks, last.req)
       IN  /\ tasks = last.preTasks
           /\ last.status \in {200, 404, 500}
           /\ last.status = 200 => /\ hits # {}
                                   /\ \E i \in hits : last.body = last.preTasks[i]
           /\ last.status = 404 => hits = {}
           /\ DbReachable(last.db) => last.status # 500
           /\ DbUnreachable(last.db) => last.status = 500

\* C4's case: the id of a soft-deleted row is answered 404.
C4_InactiveRowIs404 ==
    /\ last.op = "get"
    /\ last.status = 404
    /\ \E i \in DOMAIN last.preTasks :
          last.preTasks[i].id = last.req /\ ~last.preTasks[i].is_active

\* C5: an upload with a file name is answered 413 exactly when the file is
\* larger than 10 * 1024 * 1024 bytes, whatever the bucket setting, and then
\* no object-store call is made: the bucket setting is not read and the
\* bucket is unchanged.
C5_OversizeIs413 ==
    (last.op = "upload" /\ last.req.filename # <<>>)
    => /\ (last.status = 413) <=> (last.req.size > 10 * 1024 * 1024)
       /\ last.status = 413 => /\ last.calls = <<>>
                               /\ last.put.key = NULL
                               /\ objects = last.preObjects

\* C5's case: 10 MiB + 1 byte, bucket unset, answered 413.
C5_OneByteOverIs413 ==
    /\ last.op = "upload"
    /\ last.req.size = 10 * 1024 * 1024 + 1
    /\ environ.S3_BUCKET = NULL
    /\ last.status = 413

\* C6: an upload of a named file of at most 10 MiB while the bucket is unset
\* is answered 500 with the message of the configuration error, and no
\* object is written.
C6_BucketUnsetIs500 ==
    ( /\ last.op = "upload"
      /\ last.req.filename # <<>>
      /\ last.req.size <= 10 * 1024 * 1024
      /\ environ.S3_BUCKET \in {NULL, ""} )
    => /\ last.status = 500
       /\ last.body.detail = "S3_BUCKET environment variable is not set"
       /\ last.put.key = NULL
       /\ "upload_fileobj" \notin {last.calls[i] : i \in DOMAIN last.calls}
       /\ objects = last.preObjects

\* C6's case: a file of exactly 10 MiB, bucket unset, answered 500.
C6_TenMiBBucketUnset ==
    /\ last.op = "upload"
    /\ last.req.size = 10 * 1024 * 1024
    /\ environ.S3_BUCKET = NULL
    /\ last.status = 500
    /\ last.raised.type = "HTTPException"

\* C7: the key a successful upload writes is the key of no object an earlier
\* request wrote, so no upload overwrites an object.
C7_UploadNeverOverwrites ==
    (last.op = "upload" /\ last.status = 200)
    => last.put.key \notin last.preObjects

\* The rows a backup is to hold: the active ones, serialised.
C8_ActiveData(rows) ==
    LET active == SelectSeq(rows, LAMBDA t : t.is_active = TRUE)
    IN  [i \in 1..Len(active) |-> to_dict(active[i])]

\* What C8 says of a backup that succeeded: one document under backups/,
\* whose data is the active rows, whose record_count is the length of data
\* and the record_count of the response.
C8_Document ==
    /\ last.put.key = "backups/tasks_backup_" \o strftime(now) \o ".json"
    /\ last.put.content_type = "application/json"
    /\ objects = last.preObjects \cup {last.put.key}
    /\ last.put.body.data = C8_ActiveData(last.preTasks)
    /\ last.put.body.record_count = Len(last.put.body.data)
    /\ last.body.record_count = last.put.body.record_count
    /\ tasks = last.preTasks

\* C8 as stated: with the bucket set and the object store available (or
\* never reached, s3 = NULL), a backup is answered 200 and writes the
\* document of C8_Document.
C8_BackupSucceeds ==
    ( /\ last.op = "backup"
      /\ environ.S3_BUCKET \notin {NULL, ""}
      /\ last.s3 \in {"ok", NULL} )
    => (last.status = 200 /\ C8_Document)

\* C8 as amended: with the bucket set, the object store available and the
\* database reachable, a backup is answered 200 and writes the document of
\* C8_Document; no backup is answered 200 in any other way.
C8_Backup ==
    last.op = "backup"
    => /\ ( /\ environ.S3_BUCKET \notin {NULL, ""}
            /\ last.s3 = "ok"
            /\ DbReachable(last.db) ) => last.status = 200
       /\ last.status = 200 => C8_Document
       /\ last.status # 200 => (last.put.key = NULL /\ objects = last.preObjects)

\* C8's case: a backup of a table with rows, none of them active.
C8_EmptyBackup ==
    /\ last.op = "backup"
    /\ last.status = 200
    /\ last.preTasks # <<>>
    /\ last.body.record_count = 0
    /\ last.put.body.data = <<>>

\* C9: GET /health is always answered 200; "healthy" when the database is
\* reachable; "degraded" with a non-empty error in the database object when
\* it is unreachable.
C9_HealthIs200 ==
    last.op = "health"
    => /\ last.status = 200
       /\ last.body.status \in {"healthy", "degraded"}
       /\ DbReachable(last.db) => last.body.status = "healthy"
       /\ DbUnreachable(last.db) => /\ last.body.status = "degraded"
                                    /\ last.body.database.error # NULL
                                    /\ last.body.database.error # ""

\* C9's cases: the retries of the first connection are exhausted; and the
\* engine exists when the database goes away.
C9_RetriesExhausted ==
    /\ last.op = "health"
    /\ Count(last.calls, "connect:fail") = MAX_RETRIES
    /\ last.body.status = "degraded"

\* The operations that take a session from get_db.
C10_SessionOps == {"create", "list", "get", "backup"}

\* C10: a request that acquired a session opened it once and closed it once,
\* as the last thing done to it; the step before the close is a commit when
\* the handler returned and a rollback when it raised, and then the response
\* is the one of the raised exception; no other request has a session.
C10_SessionEnds ==
    /\ (last.op \in C10_SessionOps /\ _SessionLocal # NULL) => last.sess # <<>>
    /\ last.op \notin C10_SessionOps => last.sess = <<>>
    /\ last.sess # <<>> =>
         LET n == Len(last.sess)
         IN  /\ last.sess[1] = "open"
             /\ last.sess[n] = "close"
             /\ Count(last.sess, "open") = 1
             /\ Count(last.sess, "close") = 1
             /\ last.raised.type = NULL
                  => /\ last.sess[n - 1] = "commit"
                     /\ Count(last.sess, "rollback") = 0
                     /\ last.status \in {200, 201}
             /\ last.raised.type # NULL
                  => /\ last.sess[n - 1] = "rollback"
                     /\ [status |-> last.status, body |-> last.body]
                          = ExceptionResponse(environ, last.raised)

\* C10's case: a create refused for its status, its session rolled back and
\* closed.
C10_RefusedCreateRollsBack ==
    /\ last.op = "create"
    /\ last.status = 400
    /\ last.sess = <<"open", "rollback", "close">>

\* C11: a request that is answered 400 touched no backend: it made no
\* database connection attempt, acquired no session, ran no query and made
\* no object-store call.
C11_RejectedBeforeBackend ==
    last.status = 400 => (last.sess = <<>> /\ last.calls = <<>>)

\* The backend call that ended the request failed: the last database call
\* of a request other than /health, or the object-store call.
C12_BackendFailed ==
    /\ last.op \notin {"boot", "none", "startup", "health"}
    /\ last.calls # <<>>
    /\ LET c == last.calls[Len(last.calls)]
       IN  \/ c \in {"connect:fail", "select:fail", "insert:fail"}
           \/ c \in {"upload_fileobj", "put_object"} /\ last.s3 = "ClientError"

\* The message of the backend error that ended the request.
C12_BackendMessage ==
    IF last.s3 = "ClientError" THEN S3Exc(last.s3).msg ELSE DbExc(last.db).msg

\* The response body carries the message msg, alone or after a handler's
\* prefix.
C12_Carries(body, msg) ==
    \/ body.error = msg
    \/ body.detail \in { msg,
                         "Failed to fetch items: " \o msg,
                         "Failed to create item: " \o msg,
                         "Failed to upload file: " \o msg,
                         "Failed to create backup: " \o msg }

\* C12: a request whose backend call failed is answered 500, and with debug
\* mode off its body does not carry the backend error's message.
C12_MessageOnlyInDebug ==
    C12_BackendFailed
    => /\ last.status = 500
       /\ ~DebugOn(environ) => ~C12_Carries(last.body, C12_BackendMessage)

\* The endpoints.
C13_Endpoints == {"health", "list", "create", "get", "upload", "backup"}

\* C13: every request to an endpoint, whatever its outcome, emits exactly
\* one request log line, and the line carries the status of the response.
C13_OneLogLine ==
    last.op \in C13_Endpoints
    => /\ Len(last.logs) = 1
       /\ last.logs[1].status = last.status

\* A step that adds a row: a create answered 201 appends the row it returns
\* and leaves every earlier row as it was.
C14_Grows ==
    /\ last'.op = "create"
    /\ last'.status = 201
    /\ Len(tasks') = Len(tasks) + 1
    /\ SubSeq(tasks', 1, Len(tasks)) = tasks
    /\ tasks'[Len(tasks')] = last'.body

\* C14: starting from the empty table, every row has is_active = true at all
\* times, and every step either leaves the table as it is or is a successful
\* create that appends one row: no row is removed or changed.
C14_TasksOnlyGrow ==
    /\ [](\A i \in DOMAIN tasks : tasks[i].is_active = TRUE)
    /\ [][tasks' = tasks \/ C14_Grows]_vars

\* C14's case: a successful create on a table that already holds a row.
C14_SecondCreate ==
    /\ last.op = "create"
    /\ last.status = 201
    /\ last.preTasks # <<>>
    /\ tasks = Append(last.preTasks, last.body)

\* The positions of the connection attempts in the calls of a request.
C15_Attempts(calls) ==
    {i \in DOMAIN calls : calls[i] \in {"connect:ok", "connect:fail"}}

\* What C15 says of the calls of create_db_engine(N, d): at most N attempts;
\* a successful attempt is the last call; a failed attempt k (0-based) that
\* is not the last call is followed by a wait of d * 2^k and then by the
\* next attempt; there is no other wait, and none after the last attempt.
C15_Trace(calls, N, d) ==
    /\ Cardinality(C15_Attempts(calls)) <= N
    /\ \A i \in DOMAIN calls :
         LET k == Cardinality({j \in C15_Attempts(calls) : j < i})
         IN  /\ calls[i] = "connect:ok" => i = Len(calls)
             /\ (calls[i] = "connect:fail" /\ i < Len(calls))
                  => /\ calls[i + 1] = "sleep:" \o ToString(d * (2 ^ k))
                     /\ i + 2 \in C15_Attempts(calls)
             /\ i \notin C15_Attempts(calls)
                  => (i > 1 /\ calls[i - 1] = "connect:fail" /\ i < Len(calls))

C16_Returned == {t \in Threads : callers[t].pc = "done"}

\* C16: over all threads, create_db_engine has returned an engine at most
\* once, and the calls that have returned were all given the same engine
\* (get_engine) or a session factory bound to it (get_session_factory).
C16_InitialisedOnce ==
    /\ Cardinality({t \in Threads : callers[t].made}) <= 1
    /\ \A t1, t2 \in C16_Returned :
         /\ callers[t1].kind = callers[t2].kind
              => /\ callers[t1].engine = callers[t2].engine
                 /\ callers[t1].factory = callers[t2].factory
         /\ (callers[t1].kind = "get_engine" /\ callers[t2].kind = "get_db")
              => callers[t2].factory = "sessionmaker:" \o callers[t1].engine

====
